---- MODULE Spec2Model ----
(***************************************************************************)
(* FadeForge: the App component (src/App.tsx) and the CanvasWorkspace      *)
(* component (src/unnamed/part_000).                                       *)
(*                                                                         *)
(* The session state is App's React state (image, fileName, settings),     *)
(* the file loads in flight (FileReader, then Image decode), the <canvas>  *)
(* element owned by CanvasWorkspace, and the link a download emitted.      *)
(* One action models one event-loop task: the handler, the re-render it    *)
(* causes and the render effect of CanvasWorkspace that the re-render      *)
(* schedules (React flushes the effect before the next event is handled).  *)
(*                                                                         *)
(* Numbers.  Pixels carry the 8-bit alpha channel only: the mask is drawn  *)
(* in black with 'destination-in', which scales coverage and leaves the    *)
(* colour channels alone.  Coordinates are integers in units of            *)
(* 1/(2*SqrtScale) pixel, so that pixel centres and w/2, h/2 are exact;    *)
(* Math.sqrt is the integer square root at that resolution.  Gradient      *)
(* offsets are integers in hundredths (startPoint / 100).  An axis         *)
(* parameter t and an alpha factor are exact fractions <<num, den>>.       *)
(* Angles are the multiples of 90 degrees, whose sine and cosine are       *)
(* integers.                                                               *)
(***************************************************************************)
EXTENDS Integers, Sequences, FiniteSets, TLC

VARIABLES image, fileName, settings, pending, nSelected, canvas, renderError, link

vars == <<image, fileName, settings, pending, nSelected, canvas, renderError, link>>

(***************************************************************************)
(* Bounds of the model                                                     *)
(***************************************************************************)
\* file selections made in one behaviour
MaxLoads == 2
\* the axis parameters probed are k / TSamples, k in 0..TSamples
TSamples == 200

(***************************************************************************)
(* Program constants                                                       *)
(***************************************************************************)
AngleMin == 0
AngleMax == 360
PercentMin == 0
PercentMax == 100
DefaultAngle == 180
DefaultStartPoint == 20
DefaultEndPoint == 80
\* settings.startPoint / 100
PercentDivisor == 100
\* the 8-bit alpha of one canvas pixel
MaxAlpha == 255
\* resolution of Math.sqrt: results are multiples of 1/SqrtScale
SqrtScale == 1000
\* a canvas element is created 300 x 150, transparent black
DefaultCanvasWidth == 300
DefaultCanvasHeight == 150

(***************************************************************************)
(* Arithmetic                                                              *)
(***************************************************************************)
Max(a, b) == IF a >= b THEN a ELSE b

Min(a, b) == IF a <= b THEN a ELSE b

Abs(a) == IF a < 0 THEN -a ELSE a

RECURSIVE Gcd(_, _)
Gcd(a, b) == IF b = 0 THEN a ELSE Gcd(b, a % b)

\* a fraction in lowest terms with a positive denominator
Frac(n, d) ==
  LET g == Gcd(Abs(n), Abs(d))
      s == IF d < 0 THEN -1 ELSE 1
  IN  <<(s * n) \div g, (s * d) \div g>>

\* n / d rounded to the nearest integer, halves up (n >= 0, d > 0)
RoundDiv(n, d) == (2 * n + d) \div (2 * d)

RECURSIVE SqrtSearch(_, _, _)
SqrtSearch(n, lo, hi) ==
  IF lo >= hi THEN lo
  ELSE LET m == (lo + hi + 1) \div 2
       IN  IF m * m <= n THEN SqrtSearch(n, m, hi) ELSE SqrtSearch(n, lo, m - 1)

\* Math.sqrt(n), n an integer of squared coordinate units
ISqrt(n) == SqrtSearch(n, 0, Min(n, 46340))

\* Math.cos and Math.sin of a multiple of 90 degrees
CosDeg(deg) ==
  LET d == deg % 360
  IN  IF d = 0 THEN 1 ELSE IF d = 180 THEN -1 ELSE 0

SinDeg(deg) ==
  LET d == deg % 360
  IN  IF d = 90 THEN 1 ELSE IF d = 270 THEN -1 ELSE 0

(***************************************************************************)
(* The files a user can select, and the bitmaps they decode to             *)
(***************************************************************************)
\* App's image state before a load and after a clear
NoImage == "null"

\* canvasRef.current when no canvas element is mounted
NoCanvas == [mounted |-> FALSE]

\* no download was emitted by the step
NoLink == [download |-> "null"]

FileIds == {"photo", "logo", "strip", "dot", "speck", "blank", "broken"}

\* file.name, split at the dots
FileName(f) ==
  CASE f = "photo"  -> <<"photo", "jpg">>
    [] f = "logo"   -> <<"logo", "v2", "png">>
    [] f = "strip"  -> <<"strip", "webp">>
    [] f = "dot"    -> <<"dot">>
    [] f = "speck"  -> <<"speck", "gif">>
    [] f = "blank"  -> <<"blank", "svg">>
    [] OTHER        -> <<"broken", "png">>

\* whether the Image element fires onload (true) or onerror (false)
Decodable(f) == f # "broken"

ImageWidth(f) ==
  CASE f = "photo" -> 3 [] f = "logo" -> 4 [] f = "strip" -> 5
    [] f = "dot" -> 1 [] f = "speck" -> 1 [] OTHER -> 0

ImageHeight(f) ==
  CASE f = "photo" -> 4 [] f = "logo" -> 3 [] f = "strip" -> 1
    [] f = "dot" -> 1 [] f = "speck" -> 1 [] OTHER -> 0

\* the alpha of pixel i (row-major) of the decoded file
SourceAlpha(f, i) ==
  CASE f = "photo" -> MaxAlpha
    [] f = "logo"  -> <<0, 100, MaxAlpha, 201>>[(i % 4) + 1]
    [] f = "strip" -> 51 * i
    [] f = "dot"   -> MaxAlpha
    [] OTHER       -> 100

\* the HTMLImageElement that img.onload hands to setImage
Bitmap(f) ==
  [width  |-> ImageWidth(f),
   height |-> ImageHeight(f),
   px     |-> [i \in 0 .. (ImageWidth(f) * ImageHeight(f) - 1) |-> SourceAlpha(f, i)]]

(***************************************************************************)
(* The 2D canvas: the element's bitmap and the context's composite         *)
(* operation                                                               *)
(***************************************************************************)
\* a canvas element as the browser creates it
FreshCanvas ==
  [width  |-> DefaultCanvasWidth,
   height |-> DefaultCanvasHeight,
   px     |-> [i \in 0 .. (DefaultCanvasWidth * DefaultCanvasHeight - 1) |-> 0],
   gco    |-> "source-over"]

\* canvas.width = w: the bitmap is cleared and the context reset
SetWidth(c, w) ==
  [width |-> w, height |-> c.height,
   px |-> [i \in 0 .. (w * c.height - 1) |-> 0], gco |-> "source-over"]

\* canvas.height = h: the bitmap is cleared and the context reset
SetHeight(c, h) ==
  [width |-> c.width, height |-> h,
   px |-> [i \in 0 .. (c.width * h - 1) |-> 0], gco |-> "source-over"]

PixelX(c, i) == i % c.width

PixelY(c, i) == i \div c.width

InRect(c, i, x, y, w, h) ==
  /\ x <= PixelX(c, i) /\ PixelX(c, i) < x + w
  /\ y <= PixelY(c, i) /\ PixelY(c, i) < y + h

\* ctx.clearRect(x, y, w, h)
ClearRect(c, x, y, w, h) ==
  [c EXCEPT !.px = [i \in DOMAIN c.px |-> IF InRect(c, i, x, y, w, h) THEN 0 ELSE c.px[i]]]

\* One pixel of a paint: source coverage s = <<num, den>> in [0,1] painted in
\* black on destination alpha d under the composite operation gco.
Blend(gco, s, d) ==
  IF gco = "destination-in"
  THEN RoundDiv(d * s[1], s[2])
  ELSE RoundDiv(MaxAlpha * s[1] + d * (s[2] - s[1]), s[2])

\* ctx.drawImage(img, dx, dy); an image of zero width or height is not drawn
DrawImage(c, img, dx, dy) ==
  IF img.width = 0 \/ img.height = 0 THEN c
  ELSE [c EXCEPT !.px =
          [i \in DOMAIN c.px |->
             IF InRect(c, i, dx, dy, img.width, img.height)
             THEN Blend(c.gco,
                        <<img.px[(PixelY(c, i) - dy) * img.width + (PixelX(c, i) - dx)], MaxAlpha>>,
                        c.px[i])
             ELSE c.px[i]]]

(***************************************************************************)
(* Canvas gradients                                                        *)
(***************************************************************************)
CreateLinearGradient(x0, y0, x1, y1) ==
  [kind |-> "linear", x0 |-> x0, y0 |-> y0, r0 |-> 0,
   x1 |-> x1, y1 |-> y1, r1 |-> 0, stops |-> <<>>, error |-> "none"]

CreateRadialGradient(x0, y0, r0, x1, y1, r1) ==
  [kind |-> "radial", x0 |-> x0, y0 |-> y0, r0 |-> r0,
   x1 |-> x1, y1 |-> y1, r1 |-> r1, stops |-> <<>>, error |-> "none"]

\* where a new stop goes: after every stop whose offset is not larger
StopsBefore(stops, offset) == Cardinality({k \in DOMAIN stops : stops[k][1] <= offset})

\* gradient.addColorStop(offset, 'rgba(0,0,0,alpha)'); offset in hundredths.
\* An offset outside [0,1] throws IndexSizeError, and so does every later call
\* of the effect that threw.
AddColorStop(g, offset, alpha) ==
  IF g.error # "none" THEN g
  ELSE IF offset < 0 \/ offset > PercentDivisor THEN [g EXCEPT !.error = "IndexSizeError"]
  ELSE LET k == StopsBefore(g.stops, offset)
       IN  [g EXCEPT !.stops = SubSeq(g.stops, 1, k) \o <<(<<offset, alpha>>)>>
                                 \o SubSeq(g.stops, k + 1, Len(g.stops))]

\* The gradient's alpha at axis parameter t = <<n, d>>, as a fraction:
\* the first stop's before it, the last stop's after it, linear in between;
\* of several stops at one offset the first ends the ramp before it and the
\* last starts the ramp after it.
GradientAlphaAt(stops, t) ==
  LET atOrAfter == {k \in DOMAIN stops : PercentDivisor * t[1] <= stops[k][1] * t[2]}
  IN  IF atOrAfter = {} THEN <<stops[Len(stops)][2], 1>>
      ELSE LET k == CHOOSE j \in atOrAfter : \A m \in atOrAfter : j <= m
           IN  IF k = 1 THEN <<stops[1][2], 1>>
               ELSE LET o1 == stops[k - 1][1]
                        a1 == stops[k - 1][2]
                        o2 == stops[k][1]
                        a2 == stops[k][2]
                        fd == (o2 - o1) * t[2]
                    IN  Frac(a1 * fd + (a2 - a1) * (PercentDivisor * t[1] - o1 * t[2]), fd)

\* whether the gradient paints anything at all (coincident end points or
\* coincident circles paint nothing)
PaintsNothing(g) ==
  IF g.kind = "linear" THEN g.x0 = g.x1 /\ g.y0 = g.y1
  ELSE g.x0 = g.x1 /\ g.y0 = g.y1 /\ g.r0 = g.r1

\* The axis parameter of the point (px, py): its projection on the segment
\* (linear), its distance from the common centre between the radii (radial,
\* the two circles being concentric).
GradientT(g, px, py) ==
  IF g.kind = "linear"
  THEN LET dx == g.x1 - g.x0
           dy == g.y1 - g.y0
       IN  Frac((px - g.x0) * dx + (py - g.y0) * dy, dx * dx + dy * dy)
  ELSE Frac(ISqrt((px - g.x0) * (px - g.x0) + (py - g.y0) * (py - g.y0)) - g.r0,
            g.r1 - g.r0)

\* centre of pixel column or row k, in coordinate units
PixelCentre(k) == (2 * k + 1) * SqrtScale

\* ctx.fillStyle = gradient; ctx.fillRect(x, y, w, h)
FillRect(c, g, x, y, w, h) ==
  IF PaintsNothing(g) THEN c
  ELSE [c EXCEPT !.px =
          [i \in DOMAIN c.px |->
             IF InRect(c, i, x, y, w, h)
             THEN Blend(c.gco,
                        GradientAlphaAt(g.stops,
                          GradientT(g, PixelCentre(PixelX(c, i)), PixelCentre(PixelY(c, i)))),
                        c.px[i])
             ELSE c.px[i]]]

(***************************************************************************)
(* CanvasWorkspace: the render effect                                      *)
(***************************************************************************)
\* MakeGradient with the axis anchored at the canvas origin, not its centre
MakeGradient_AtOrigin(c, s) ==
  LET w == c.width
      h == c.height
  IN  IF s.type = "linear"
      THEN LET rad == s.angle - 90
               halfDiagonal == ISqrt((w * w + h * h) * SqrtScale * SqrtScale)
           IN  CreateLinearGradient(0 - CosDeg(rad) * halfDiagonal, 0 - SinDeg(rad) * halfDiagonal,
                                    CosDeg(rad) * halfDiagonal, SinDeg(rad) * halfDiagonal)
      ELSE CreateRadialGradient(0, 0, 0, 0, 0, Max(w, h) * SqrtScale)

\* the gradient of the chosen shape over canvas c
MakeGradient(c, s) ==
  LET w == c.width
      h == c.height
      cx == w * SqrtScale
      cy == h * SqrtScale
  IN  IF s.type = "linear"
      THEN LET rad == s.angle - 90
               halfDiagonal == ISqrt((w * w + h * h) * SqrtScale * SqrtScale)
               x1 == cx + CosDeg(rad) * halfDiagonal
               y1 == cy + SinDeg(rad) * halfDiagonal
               x0 == cx - CosDeg(rad) * halfDiagonal
               y0 == cy - SinDeg(rad) * halfDiagonal
           IN  CreateLinearGradient(x0, y0, x1, y1)
      ELSE LET r == Max(w, h) * SqrtScale
           IN  CreateRadialGradient(cx, cy, 0, cx, cy, r)

\* SafeStop without the clamp
SafeStop_Unclamped(p) == p

\* safeStart, safeEnd: Math.max(0, Math.min(1, p / 100)), in hundredths
SafeStop(p) == Max(0, Min(PercentDivisor, p))

\* LoStop taking the start for the lower stop, whatever the order
LoStop_StartOnly(s) == Max(0, Min(PercentDivisor, s.startPoint))

\* Math.min(safeStart, safeEnd)
LoStop(s) == Min(SafeStop(s.startPoint), SafeStop(s.endPoint))

\* HiStop kept strictly above the lower stop where there is room
HiStop_Widened(s) ==
  LET a == Max(0, Min(PercentDivisor, s.startPoint))
      b == Max(0, Min(PercentDivisor, s.endPoint))
  IN  IF a = b THEN Min(PercentDivisor, a + 1) ELSE Max(a, b)

\* Math.max(safeStart, safeEnd)
HiStop(s) == Max(SafeStop(s.startPoint), SafeStop(s.endPoint))

\* NearAlpha with the invert branch never taken
NearAlpha_IgnoresInvert(s) == 1

\* NearAlpha with the two branches exchanged
NearAlpha_Swapped(s) == IF s.invert THEN 1 ELSE 0

\* the alpha of the two stops before the fade zone
NearAlpha(s) == IF s.invert THEN 0 ELSE 1

\* the four addColorStop calls
ApplyUserStops(g, s) ==
  LET a == NearAlpha(s)
      b == 1 - NearAlpha(s)
  IN  AddColorStop(AddColorStop(AddColorStop(AddColorStop(g, 0, a), LoStop(s), a),
                                HiStop(s), b),
                   PercentDivisor, b)

\* DrawOriginal that leaves a canvas of the right size as it is
DrawOriginal_KeepsCanvas(c, img) ==
  IF c.width = img.width /\ c.height = img.height THEN c
  ELSE LET sized == SetHeight(SetWidth(c, img.width), img.height)
       IN  DrawImage(ClearRect(sized, 0, 0, sized.width, sized.height), img, 0, 0)

\* steps 1 and 2: size the canvas to the image, clear it, draw the image
DrawOriginal(c, img) ==
  LET sized == SetHeight(SetWidth(c, img.width), img.height)
  IN  DrawImage(ClearRect(sized, 0, 0, sized.width, sized.height), img, 0, 0)

\* The body of the render effect on canvas c with a loaded image: the canvas
\* it leaves and the exception it ended with ("none": it returned).
RenderEffect(c, img, s) ==
  LET drawn == [DrawOriginal(c, img) EXCEPT !.gco = "destination-in"]
      gradient == ApplyUserStops(MakeGradient(drawn, s), s)
  IN  IF gradient.error # "none"
      THEN [canvas |-> drawn, error |-> gradient.error]
      ELSE [canvas |-> [FillRect(drawn, gradient, 0, 0, drawn.width, drawn.height)
                          EXCEPT !.gco = "source-over"],
            error  |-> "none"]

\* The effect as React runs it after a commit in which image or settings
\* changed: nothing without a canvas element or without an image.
RunEffect(c, f, s) ==
  IF c = NoCanvas \/ f = NoImage
  THEN [canvas |-> c, error |-> "none"]
  ELSE RenderEffect(c, Bitmap(f), s)

\* canvasRef.current.toDataURL('image/png'): the canvas bitmap
ToDataURL(c) ==
  IF c = NoCanvas THEN <<>>
  ELSE <<c.width, c.height, c.px>>

(***************************************************************************)
(* App                                                                     *)
(***************************************************************************)
DefaultSettings ==
  [angle |-> DefaultAngle, startPoint |-> DefaultStartPoint,
   endPoint |-> DefaultEndPoint, invert |-> FALSE, type |-> "linear"]

\* the file name a fresh session starts with
InitialFileName == <<"image", "png">>

\* the positions the sliders are moved to
SliderAngles == {DefaultAngle, 270}

SliderPercents == {PercentMin, DefaultStartPoint, DefaultEndPoint}

\* the files offered to the file input
SessionFiles == {"photo", "dot", "blank", "broken"}

RECURSIVE Join(_)
\* nameParts.join('.')
Join(parts) ==
  IF parts = <<>> THEN ""
  ELSE IF Len(parts) = 1 THEN parts[1]
  ELSE parts[1] \o "." \o Join(Tail(parts))

\* link.download: the file name without its last extension, "-fade.png" added
DownloadName(name) ==
  LET nameParts == IF Len(name) > 1 THEN SubSeq(name, 1, Len(name) - 1) ELSE name
  IN  Join(nameParts) \o "-fade.png"

Init ==
  /\ image = NoImage
  /\ fileName = InitialFileName
  /\ settings = DefaultSettings
  /\ pending = {}
  /\ nSelected = 0
  /\ canvas = NoCanvas
  /\ renderError = "none"
  /\ link = NoLink

\* what a commit does to the canvas element and the effect: with no image
\* CanvasWorkspace renders the placeholder and the canvas is unmounted; with
\* an image the canvas is the mounted one, or a new one, and the effect runs.
Commit(f, s) ==
  LET mounted == IF f = NoImage THEN NoCanvas
                 ELSE IF canvas = NoCanvas THEN FreshCanvas ELSE canvas
      ran == RunEffect(mounted, f, s)
  IN  /\ canvas' = ran.canvas
      /\ renderError' = ran.error

\* handleFileChange: a file was chosen; reader.readAsDataURL(file) starts
HandleFileChange(f) ==
  /\ nSelected < MaxLoads
  /\ nSelected' = nSelected + 1
  /\ pending' = pending \cup {[id |-> nSelected + 1, file |-> f, stage |-> "reading"]}
  /\ link' = NoLink
  /\ UNCHANGED <<image, fileName, settings, canvas, renderError>>

\* reader.onload: img.src = the data URL, decoding starts
ReaderOnload(l) ==
  /\ l.stage = "reading"
  /\ pending' = (pending \ {l}) \cup {[l EXCEPT !.stage = "decoding"]}
  /\ link' = NoLink
  /\ UNCHANGED <<image, fileName, settings, nSelected, canvas, renderError>>

\* LoadedFileName reading the most recent selection, not the load's own file
LoadedFileName_Newest(l) ==
  FileName((CHOOSE p \in pending : \A q \in pending : q.id <= p.id).file)

\* the name img.onload of load l passes to setFileName: file.name of the
\* file its own handleFileChange call closed over
LoadedFileName(l) == FileName(l.file)

\* img.onload: setImage(img); setFileName(file.name)
ImgOnload(l) ==
  /\ l.stage = "decoding"
  /\ Decodable(l.file)
  /\ pending' = pending \ {l}
  /\ image' = l.file
  /\ fileName' = LoadedFileName(l)
  /\ link' = NoLink
  /\ UNCHANGED <<settings, nSelected>>
  /\ Commit(l.file, settings)

\* the decode fails: no handler is registered, the load is dropped
ImgOnerror(l) ==
  /\ l.stage = "decoding"
  /\ ~Decodable(l.file)
  /\ pending' = pending \ {l}
  /\ link' = NoLink
  /\ UNCHANGED <<image, fileName, settings, nSelected, canvas, renderError>>

\* the X button of the file card: setImage(null)
ClearImage ==
  /\ image # NoImage
  /\ image' = NoImage
  /\ link' = NoLink
  /\ UNCHANGED <<fileName, settings, pending, nSelected>>
  /\ Commit(NoImage, settings)

\* setSettings(next) and the commit that follows
SetSettings(next) ==
  /\ settings' = next
  /\ link' = NoLink
  /\ UNCHANGED <<image, fileName, pending, nSelected>>
  /\ Commit(image, next)

\* the Angle slider
ChangeAngle(v) ==
  /\ v # settings.angle
  /\ SetSettings([settings EXCEPT !.angle = v])

\* the Fade Start slider
ChangeStartPoint(v) ==
  /\ v # settings.startPoint
  /\ SetSettings([settings EXCEPT !.startPoint = v])

\* the Fade End slider
ChangeEndPoint(v) ==
  /\ v # settings.endPoint
  /\ SetSettings([settings EXCEPT !.endPoint = v])

\* the Invert checkbox
ToggleInvert == SetSettings([settings EXCEPT !.invert = ~settings.invert])

\* resetSettings
ResetSettings == SetSettings(DefaultSettings)

\* handleDownload; the Export button is disabled without an image
HandleDownload ==
  /\ image # NoImage
  /\ ToDataURL(canvas) # <<>>
  /\ link' = [download |-> DownloadName(fileName), href |-> ToDataURL(canvas)]
  /\ UNCHANGED <<image, fileName, settings, pending, nSelected, canvas, renderError>>

Next ==
  \/ \E f \in SessionFiles : HandleFileChange(f)
  \/ \E l \in pending : ReaderOnload(l)
  \/ \E l \in pending : ImgOnload(l)
  \/ \E l \in pending : ImgOnerror(l)
  \/ ClearImage
  \/ \E v \in SliderAngles : ChangeAngle(v)
  \/ \E v \in SliderPercents : ChangeStartPoint(v)
  \/ \E v \in SliderPercents : ChangeEndPoint(v)
  \/ ToggleInvert
  \/ ResetSettings
  \/ HandleDownload

Spec == Init /\ [][Next]_vars

(***************************************************************************)
(* The compositing alone: one render of every decodable file under every   *)
(* parameter record, the record not being restricted to what the sliders   *)
(* can produce (both shapes, fade percentages outside [0,100]).            *)
(***************************************************************************)
Angles == {a \in AngleMin .. AngleMax : a % 90 = 0}

FadePercents == {-50, PercentMin, DefaultStartPoint, 50, DefaultEndPoint, PercentMax, 150}

ParameterRecords ==
  [angle : Angles, startPoint : FadePercents, endPoint : FadePercents,
   invert : BOOLEAN, type : {"linear", "radial"}]

CompositeInit ==
  /\ image \in {f \in FileIds : Decodable(f)}
  /\ fileName = FileName(image)
  /\ settings \in ParameterRecords
  /\ pending = {}
  /\ nSelected = 0
  /\ canvas = NoCanvas
  /\ renderError = "none"
  /\ link = NoLink

\* the first commit with the image: the canvas is mounted and the effect runs
FirstRender ==
  /\ canvas = NoCanvas
  /\ Commit(image, settings)
  /\ UNCHANGED <<image, fileName, settings, pending, nSelected, link>>

CompositeNext == FirstRender

CompositeSpec == CompositeInit /\ [][CompositeNext]_vars

(***************************************************************************)
(* Vocabulary of the properties                                            *)
(***************************************************************************)
Rendered == canvas # NoCanvas

\* the unmodified source image
Source == Bitmap(image)

\* a fade percentage brought into [0,100]
ClampPercent(p) == IF p < PercentMin THEN PercentMin ELSE IF p > PercentMax THEN PercentMax ELSE p

\* lo and hi of the fade zone, in percent, and the factor on the near side
FadeLo(s) == Min(ClampPercent(s.startPoint), ClampPercent(s.endPoint))

FadeHi(s) == Max(ClampPercent(s.startPoint), ClampPercent(s.endPoint))

NearFactor(s) == IF s.invert THEN 0 ELSE 1

\* the stops the effect gives a gradient under settings s
UserStops(s) == ApplyUserStops(CreateLinearGradient(0, 0, 0, 0), s).stops

\* the alpha factor at axis parameter t under settings s; the properties
\* probe it at t = k / TSamples, k in 0 .. TSamples
Factor(s, t) == GradientAlphaAt(UserStops(s), t)

\* the render of the loaded image under other settings, on a new canvas
RenderOf(s) == RunEffect(FreshCanvas, image, s)

ThisRender == [canvas |-> canvas, error |-> renderError]

\* a pixel inside the fade zone: neither untouched nor erased
PartlyFaded(i) == 0 < canvas.px[i] /\ canvas.px[i] < Source.px[i]

\* composite(image, settings) from the source image alone: each pixel's
\* source alpha times the factor at the pixel centre's axis parameter
Composite(f, s) ==
  LET b == Bitmap(f)
      g == ApplyUserStops(MakeGradient(b, s), s)
      factorAt(i) == GradientAlphaAt(g.stops,
                       GradientT(g, PixelCentre(PixelX(b, i)), PixelCentre(PixelY(b, i))))
  IN  [width |-> b.width, height |-> b.height,
       px |-> [i \in DOMAIN b.px |-> RoundDiv(b.px[i] * factorAt(i)[1], factorAt(i)[2])],
       gco |-> "source-over"]

(***************************************************************************)
(* C1  After any sequence of parameter changes, resets, image loads and    *)
(* clears, the canvas shown and exported is composite(loaded image,        *)
(* current settings) computed from the unmodified source image; without an *)
(* image there is no canvas.  Checked under Spec.                          *)
(***************************************************************************)
C1_CanvasIsCompositeOfSource ==
  /\ image = NoImage => canvas = NoCanvas
  /\ image # NoImage => canvas = Composite(image, settings) /\ renderError = "none"
  /\ link # NoLink => link.href = ToDataURL(Composite(image, settings))

\* a second image, rendered again after the settings were changed
C1_Witness ==
  /\ image = "photo"
  /\ nSelected = MaxLoads
  /\ pending = {}
  /\ settings.invert
  /\ settings.angle = 270
  /\ settings.startPoint = PercentMin
  /\ \E i \in DOMAIN canvas.px : PartlyFaded(i)

(***************************************************************************)
(* C5  A bitmap whose width or height is zero or negative is rejected by   *)
(* the render with an InvalidDimensions error.  Checked under Spec; the    *)
(* effect raises nothing for such an image.                                *)
(***************************************************************************)
C5_ZeroAreaRejected ==
  (image # NoImage /\ (ImageWidth(image) <= 0 \/ ImageHeight(image) <= 0))
    => renderError = "InvalidDimensions"

(***************************************************************************)
(* C9  The parameter surface exposes the shape toggle: with the controls   *)
(* form active (an image is loaded) some user action leads to a settings   *)
(* record of the other shape.  Checked under Spec; no handler assigns      *)
(* type.                                                                   *)
(***************************************************************************)
C9_ShapeToggleExposed ==
  image # NoImage =>
    ENABLED (/\ settings' \in {s \in ParameterRecords : s.type # settings.type}
             /\ Next)

\* what holds instead: the shape never leaves its initial value
C9_ShapeStaysLinear == settings.type = "linear"

(***************************************************************************)
(* C10  Whenever an image is loaded, fileName is the name of the file the  *)
(* image was decoded from, under every interleaving of selections, reads,  *)
(* decodes and clears; an export pairs the canvas of that image with the   *)
(* name derived from that file.  Checked under Spec.                       *)
(***************************************************************************)
C10_NameMatchesImage ==
  /\ image # NoImage => fileName = FileName(image)
  /\ link # NoLink =>
       /\ image # NoImage
       /\ link.download = DownloadName(FileName(image))
       /\ link.href = ToDataURL(canvas)

\* the second selection was loaded and exported while the first, another
\* decodable file, is still in flight
C10_Witness ==
  /\ image # NoImage
  /\ link # NoLink
  /\ nSelected = 2
  /\ \E l \in pending : pending = {l} /\ l.id = 1 /\ Decodable(l.file) /\ l.file # image

(***************************************************************************)
(* C2  Swapping fadeStart and fadeEnd, all else equal, gives an identical  *)
(* output.  Checked under CompositeSpec.                                   *)
(***************************************************************************)
C2_SwapFadePair ==
  Rendered =>
    RenderOf([settings EXCEPT !.startPoint = settings.endPoint,
                              !.endPoint = settings.startPoint]) = ThisRender

C2_Witness ==
  /\ Rendered
  /\ settings.startPoint > settings.endPoint
  /\ \E i \in DOMAIN canvas.px : PartlyFaded(i)

(***************************************************************************)
(* C3  As claimed: for every pixel the output alpha with invert=true is    *)
(* 255 minus the output alpha with invert=false.  Checked under            *)
(* CompositeSpec; fails for a pixel that is not opaque in the source and   *)
(* when both alphas round up from a half.                                  *)
(***************************************************************************)
Inverted(s) == [s EXCEPT !.invert = ~s.invert]

C3_ExactComplement ==
  Rendered =>
    \A i \in DOMAIN canvas.px :
      RenderOf(Inverted(settings)).canvas.px[i] = MaxAlpha - canvas.px[i]

(***************************************************************************)
(* C3, amended  For every pixel the output alphas with invert=true and     *)
(* with invert=false add up to the pixel's source alpha, to within one     *)
(* unit of the 8-bit rounding.                                             *)
(***************************************************************************)
C3_ComplementOfSourceAlpha ==
  Rendered =>
    \A i \in DOMAIN canvas.px :
      Abs(RenderOf(Inverted(settings)).canvas.px[i] + canvas.px[i] - Source.px[i]) <= 1

\* a pixel that is not opaque in the source, inside the fade zone
C3_Witness ==
  /\ Rendered
  /\ \E i \in DOMAIN canvas.px : Source.px[i] < MaxAlpha /\ PartlyFaded(i)

(***************************************************************************)
(* C4  A fadeStart or fadeEnd outside [0,100] raises no error, and the     *)
(* output is the output for the values clamped to [0,100].  Checked under  *)
(* CompositeSpec.                                                          *)
(***************************************************************************)
C4_OutOfRangeIsClamped ==
  Rendered =>
    /\ renderError = "none"
    /\ RenderOf([settings EXCEPT !.startPoint = ClampPercent(settings.startPoint),
                                 !.endPoint = ClampPercent(settings.endPoint)]) = ThisRender

C4_Witness ==
  /\ Rendered
  /\ settings.startPoint < PercentMin
  /\ settings.endPoint > PercentMax
  /\ \E i \in DOMAIN canvas.px : PartlyFaded(i)

(***************************************************************************)
(* C6  As claimed: a 1x1 bitmap renders without error to one pixel whose   *)
(* alpha is the source alpha times the factor at t = 0, for both shapes.   *)
(* Checked under CompositeSpec; fails for the linear shape.                *)
(***************************************************************************)
OnePixel == Rendered /\ Source.width = 1 /\ Source.height = 1

FactorTimes(a, f) == RoundDiv(a * f[1], f[2])

C6_OnePixelAtAxisStart ==
  OnePixel =>
    /\ renderError = "none"
    /\ DOMAIN canvas.px = {0}
    /\ canvas.px[0] = FactorTimes(Source.px[0], Factor(settings, <<0, 1>>))

(***************************************************************************)
(* C6, amended  A 1x1 bitmap renders without error to one pixel whose      *)
(* alpha is the source alpha times the factor at t = 1/2 for the linear    *)
(* shape (the pixel centre is the midpoint of the axis) and at t = 0 for   *)
(* the radial shape; the axis is not degenerate, with no guard applied.    *)
(***************************************************************************)
C6_OnePixelAtCentre ==
  OnePixel =>
    /\ renderError = "none"
    /\ ~PaintsNothing(MakeGradient(Source, settings))
    /\ DOMAIN canvas.px = {0}
    /\ canvas.px[0] =
         FactorTimes(Source.px[0],
                     Factor(settings, IF settings.type = "linear" THEN <<1, 2>> ELSE <<0, 1>>))

C6_Witness ==
  /\ OnePixel
  /\ image = "speck"
  /\ settings.type = "linear"
  /\ PartlyFaded(0)

(***************************************************************************)
(* C7  When the clamped fadeStart and fadeEnd are equal, the factor is     *)
(* exactly 0 or exactly 1 at every axis parameter in [0,1], with the jump  *)
(* at t = lo, so every output alpha is 0 or the source alpha.  Checked     *)
(* under CompositeSpec.                                                    *)
(***************************************************************************)
C7_HardStep ==
  FadeLo(settings) = FadeHi(settings) =>
    /\ LET stops == UserStops(settings)
           near  == NearFactor(settings)
           lo    == FadeLo(settings) * TSamples
       IN  \A k \in 0 .. TSamples :
             LET f  == GradientAlphaAt(stops, <<k, TSamples>>)
                 at == PercentDivisor * k
             IN  /\ f \in {<<0, 1>>, <<1, 1>>}
                 /\ at < lo => f = <<near, 1>>
                 /\ at > lo => f = <<1 - near, 1>>
    /\ Rendered => \A i \in DOMAIN canvas.px : canvas.px[i] \in {0, Source.px[i]}

\* fadeStart = fadeEnd = 50, with pixels on both sides of the step
C7_Witness ==
  /\ Rendered
  /\ settings.startPoint = 50
  /\ settings.endPoint = 50
  /\ \E i, j \in DOMAIN canvas.px :
       /\ Source.px[i] > 0 /\ canvas.px[i] = 0
       /\ canvas.px[j] > 0 /\ canvas.px[j] = Source.px[j]

(***************************************************************************)
(* C8  The factor lies in [0,1] at every axis parameter in [0,1]; it is    *)
(* non-increasing in t when invert is false (1 up to lo, linear from 1 to  *)
(* 0 between lo and hi, 0 from hi on) and non-decreasing when invert is    *)
(* true (0, linear from 0 to 1, 1).  Where lo = hi the profile is stated   *)
(* off the jump.  Checked under CompositeSpec.                             *)
(***************************************************************************)
FracLeq(a, b) == a[1] * b[2] <= b[1] * a[2]

\* (hi - t) / (hi - lo) when invert is false, (t - lo) / (hi - lo) when true
OnRamp(s, t, f) ==
  LET span == (FadeHi(s) - FadeLo(s)) * t[2]
      run  == IF s.invert
              THEN PercentDivisor * t[1] - FadeLo(s) * t[2]
              ELSE FadeHi(s) * t[2] - PercentDivisor * t[1]
  IN  f[1] * span = f[2] * run

C8_FactorProfile ==
  LET stops == UserStops(settings)
      near  == NearFactor(settings)
      lo    == FadeLo(settings) * TSamples
      hi    == FadeHi(settings) * TSamples
  IN  \A k \in 0 .. TSamples :
        LET f  == GradientAlphaAt(stops, <<k, TSamples>>)
            g  == GradientAlphaAt(stops, <<Min(k + 1, TSamples), TSamples>>)
            at == PercentDivisor * k
        IN  /\ FracLeq(<<0, 1>>, f) /\ FracLeq(f, <<1, 1>>)
            /\ (at < lo \/ (at = lo /\ lo < hi)) => f = <<near, 1>>
            /\ (at > hi \/ (at = hi /\ lo < hi)) => f = <<1 - near, 1>>
            /\ (lo < at /\ at < hi) => OnRamp(settings, <<k, TSamples>>, f)
            /\ IF settings.invert THEN FracLeq(f, g) ELSE FracLeq(g, f)

C8_Witness ==
  /\ Rendered
  /\ settings.invert
  /\ settings.startPoint = DefaultEndPoint
  /\ settings.endPoint = DefaultStartPoint
  /\ \E i, j \in DOMAIN canvas.px : PartlyFaded(i) /\ canvas.px[i] < canvas.px[j]

====
